---- MODULE Spec2Model ----
(***************************************************************************)
(* Model of helpers/src/recordpaintengine.cpp: the paint elements that     *)
(* record one painter call each, and RecordPaintEngine, which turns the    *)
(* paint engine notifications into elements added to a RecordPaintDevice.  *)
(***************************************************************************)
EXTENDS Integers, Sequences, FiniteSets, TLC

\* ------------------------------------------------------------------ bounds
\* Largest number of notifications delivered in one behaviour of Spec.
MaxNotes == 2

\* ------------------------------------------------------------ input values
\* Paint devices: two RecordPaintDevice objects, one device of another class
\* (the argument of begin is a QPaintDevice*), and the null pointer.
Surfaces == {"A", "B"}
Foreign == "X"
Null == "null"
Handles == Surfaces \cup {Foreign, Null}

\* Qt value types, by a few representative values.
QRects == {[ty |-> "QRect", x |-> 0, y |-> 0, w |-> 2, h |-> 1]}
QRectFs == {[ty |-> "QRectF", x |-> 1, y |-> 1, w |-> 2, h |-> 2]}
QPointFs == {"p0"}
QImages == {"img"}
QPixmaps == {"pm"}
QPainterPaths == {"path"}
ImageConversionFlags == {"AutoColor"}
\* A QTextItem has more than its text: two items with the same text differ.
QTextItems == {[text |-> "abc", renderFlags |-> "none"],
               [text |-> "abc", renderFlags |-> "underline"]}
PolygonDrawModes == {"OddEvenMode", "WindingMode", "ConvexMode", "PolylineMode"}

\* What a caller's array may hold (lines, points or rectangles, by the
\* element type T of the notification).
Elems == {"e1", "e2"}

\* The QPaintEngine::DirtyFlags the engine tests (the host also knows
\* DirtyOpacity, which the engine does not test).
DirtyFlags == {"DirtyBackground", "DirtyBackgroundMode", "DirtyBrush",
               "DirtyBrushOrigin", "DirtyClipRegion", "DirtyClipPath",
               "DirtyCompositionMode", "DirtyFont", "DirtyTransform",
               "DirtyClipEnabled", "DirtyPen", "DirtyHints"}

\* A QPaintEngineState: the dirty flags and the current value behind each
\* accessor.  Values are tagged by accessor and by a version of the painter
\* state, so that the value of one attribute is never the value of another.
Versions == {"v1", "v2"}
Accessors == {"backgroundBrush", "backgroundMode", "brush", "brushOrigin",
              "clipOperation", "clipRegion", "clipPath", "compositionMode",
              "font", "transform", "isClipEnabled", "pen", "renderHints"}
PaintEngineState(flags, v) ==
    [state |-> flags, val |-> [a \in Accessors |-> <<a, v>>]]

VARIABLES
    pdev,      \* RecordPaintEngine::_pdev
    elements,  \* per RecordPaintDevice: the elements added to it, in order
    ret,       \* the value the last begin() or end() returned
    ub,        \* "none", or how a call through an invalid _pdev ended
    buf,       \* the caller's array handed to the batch notifications
    target,    \* per replay target: the painter calls issued on it
    arg,       \* the notification the host delivers next (single-call specs)
    hist       \* per device: the notifications delivered while bound to it

vars == <<pdev, elements, ret, ub, buf, target, arg, hist>>

\* ------------------------------------------------------- drawing elements
\* Each element is the object a constructor builds; X_paint(e) is its
\* paint(QPainter&): the painter call it issues and the element afterwards
\* (paint is not a const method).

EllipseElement(rect) == [class |-> "EllipseElement", ellipse |-> rect]
EllipseElement_paint(e) ==
    [call |-> <<"drawEllipse", e.ellipse>>, self |-> e]

ImageElement(rect, image, sr, flags) ==
    [class |-> "ImageElement", image |-> image, rect |-> rect, sr |-> sr,
     flags |-> flags]
ImageElement_paint(e) ==
    [call |-> <<"drawImage", e.rect, e.image, e.sr, e.flags>>, self |-> e]

\* for(int i = 0; i < linecount; i++) _lines << lines[i];
RECURSIVE lineElement_loop(_, _, _, _)
lineElement_loop(lines, linecount, i, acc) ==
    IF i < linecount
    THEN lineElement_loop(lines, linecount, i + 1, Append(acc, lines[i + 1]))
    ELSE acc
lineElement(T, lines, linecount) ==
    [class |-> "lineElement", T |-> T,
     lines |-> lineElement_loop(lines, linecount, 0, <<>>)]
\* Mutant: the element kept the caller's pointer and paints the caller's
\* array as it is now.
lineElement_paint_alias(e) ==
    [call |-> <<"drawLines", e.T, buf.data>>, self |-> e]
\* Mutant: painting hands the lines over and leaves the element empty.
lineElement_paint_consume(e) ==
    [call |-> <<"drawLines", e.T, e.lines>>, self |-> [e EXCEPT !.lines = <<>>]]
lineElement_paint(e) ==
    [call |-> <<"drawLines", e.T, e.lines>>, self |-> e]

PathElement(path) == [class |-> "PathElement", path |-> path]
PathElement_paint(e) == [call |-> <<"drawPath", e.path>>, self |-> e]

PixmapElement(r, pm, sr) ==
    [class |-> "PixmapElement", r |-> r, pm |-> pm, sr |-> sr]
PixmapElement_paint(e) ==
    [call |-> <<"drawPixmap", e.r, e.pm, e.sr>>, self |-> e]

RECURSIVE pointElement_loop(_, _, _, _)
pointElement_loop(points, pointcount, i, acc) ==
    IF i < pointcount
    THEN pointElement_loop(points, pointcount, i + 1,
                           Append(acc, points[i + 1]))
    ELSE acc
pointElement(T, points, pointcount) ==
    [class |-> "pointElement", T |-> T,
     pts |-> pointElement_loop(points, pointcount, 0, <<>>)]
pointElement_paint(e) ==
    [call |-> <<"drawPoints", e.T, e.pts>>, self |-> e]

RECURSIVE polyElement_loop(_, _, _, _)
polyElement_loop(points, pointcount, i, acc) ==
    IF i < pointcount
    THEN polyElement_loop(points, pointcount, i + 1,
                          Append(acc, points[i + 1]))
    ELSE acc
polyElement(T, points, pointcount, mode) ==
    [class |-> "polyElement", T |-> T, mode |-> mode,
     pts |-> polyElement_loop(points, pointcount, 0, <<>>)]
\* Mutant: the convex mode is painted as a generic polygon.
polyElement_paint_generic(e) ==
    [call |->
        CASE e.mode = "OddEvenMode" ->
                <<"drawPolygon", e.T, e.pts, "OddEvenFill">>
          [] e.mode = "WindingMode" ->
                <<"drawPolygon", e.T, e.pts, "WindingFill">>
          [] e.mode = "ConvexMode" ->
                <<"drawPolygon", e.T, e.pts, "OddEvenFill">>
          [] e.mode = "PolylineMode" -> <<"drawPolyline", e.T, e.pts>>,
     self |-> e]
polyElement_paint(e) ==
    [call |->
        CASE e.mode = "OddEvenMode" ->
                <<"drawPolygon", e.T, e.pts, "OddEvenFill">>
          [] e.mode = "WindingMode" ->
                <<"drawPolygon", e.T, e.pts, "WindingFill">>
          [] e.mode = "ConvexMode" -> <<"drawConvexPolygon", e.T, e.pts>>
          [] e.mode = "PolylineMode" -> <<"drawPolyline", e.T, e.pts>>,
     self |-> e]

RECURSIVE rectElement_loop(_, _, _, _)
rectElement_loop(rects, rectcount, i, acc) ==
    IF i < rectcount
    THEN rectElement_loop(rects, rectcount, i + 1, Append(acc, rects[i + 1]))
    ELSE acc
rectElement(T, rects, rectcount) ==
    [class |-> "rectElement", T |-> T,
     rects |-> rectElement_loop(rects, rectcount, 0, <<>>)]
rectElement_paint(e) ==
    [call |-> <<"drawRects", e.T, e.rects>>, self |-> e]

\* _text(txt.text()): of the text item only its string is kept.
\* Mutant: the element keeps the formatting of the item with its text.
TextElement_formatted(pt, txt) ==
    [class |-> "TextElement", pt |-> pt, text |-> txt.text,
     renderFlags |-> txt.renderFlags]

TextElement(pt, txt) == [class |-> "TextElement", pt |-> pt, text |-> txt.text]
TextElement_paint(e) == [call |-> <<"drawText", e.pt, e.text>>, self |-> e]

TiledPixmapElement(rect, pixmap, pt) ==
    [class |-> "TiledPixmapElement", rect |-> rect, pixmap |-> pixmap,
     pt |-> pt]
TiledPixmapElement_paint(e) ==
    [call |-> <<"drawTiledPixmap", e.rect, e.pixmap, e.pt>>, self |-> e]

\* ---------------------------------------------------------- state elements
BackgroundBrushElement(brush) ==
    [class |-> "BackgroundBrushElement", brush |-> brush]
BackgroundBrushElement_paint(e) ==
    [call |-> <<"setBackground", e.brush>>, self |-> e]

BackgroundModeElement(mode) ==
    [class |-> "BackgroundModeElement", mode |-> mode]
BackgroundModeElement_paint(e) ==
    [call |-> <<"setBackgroundMode", e.mode>>, self |-> e]

BrushElement(brush) == [class |-> "BrushElement", brush |-> brush]
BrushElement_paint(e) == [call |-> <<"setBrush", e.brush>>, self |-> e]

BrushOriginElement(origin) ==
    [class |-> "BrushOriginElement", origin |-> origin]
BrushOriginElement_paint(e) ==
    [call |-> <<"setBrushOrigin", e.origin>>, self |-> e]

ClipRegionElement(op, region) ==
    [class |-> "ClipRegionElement", op |-> op, region |-> region]
ClipRegionElement_paint(e) ==
    [call |-> <<"setClipRegion", e.region, e.op>>, self |-> e]

\* Mutant: the clip path is recorded with the default clip operation.
ClipPathElement_replace(op, region) ==
    [class |-> "ClipPathElement", op |-> <<"clipOperation", "ReplaceClip">>,
     region |-> region]

ClipPathElement(op, region) ==
    [class |-> "ClipPathElement", op |-> op, region |-> region]
ClipPathElement_paint(e) ==
    [call |-> <<"setClipPath", e.region, e.op>>, self |-> e]

CompositionElement(mode) == [class |-> "CompositionElement", mode |-> mode]
CompositionElement_paint(e) ==
    [call |-> <<"setCompositionMode", e.mode>>, self |-> e]

FontElement(font) == [class |-> "FontElement", font |-> font]
FontElement_paint(e) == [call |-> <<"setFont", e.font>>, self |-> e]

TransformElement(t) == [class |-> "TransformElement", t |-> t]
TransformElement_paint(e) ==
    [call |-> <<"setWorldTransform", e.t>>, self |-> e]

ClipEnabledElement(enabled) ==
    [class |-> "ClipEnabledElement", enabled |-> enabled]
ClipEnabledElement_paint(e) ==
    [call |-> <<"setClipping", e.enabled>>, self |-> e]

PenElement(pen) == [class |-> "PenElement", pen |-> pen]
PenElement_paint(e) == [call |-> <<"setPen", e.pen>>, self |-> e]

HintsElement(hints) == [class |-> "HintsElement", hints |-> hints]
HintsElement_paint(e) == [call |-> <<"setRenderHints", e.hints>>, self |-> e]

\* The virtual call PaintElement::paint, by the class of the element.
paint(e) ==
    CASE e.class = "EllipseElement" -> EllipseElement_paint(e)
      [] e.class = "ImageElement" -> ImageElement_paint(e)
      [] e.class = "lineElement" -> lineElement_paint(e)
      [] e.class = "PathElement" -> PathElement_paint(e)
      [] e.class = "PixmapElement" -> PixmapElement_paint(e)
      [] e.class = "pointElement" -> pointElement_paint(e)
      [] e.class = "polyElement" -> polyElement_paint(e)
      [] e.class = "rectElement" -> rectElement_paint(e)
      [] e.class = "TextElement" -> TextElement_paint(e)
      [] e.class = "TiledPixmapElement" -> TiledPixmapElement_paint(e)
      [] e.class = "BackgroundBrushElement" -> BackgroundBrushElement_paint(e)
      [] e.class = "BackgroundModeElement" -> BackgroundModeElement_paint(e)
      [] e.class = "BrushElement" -> BrushElement_paint(e)
      [] e.class = "BrushOriginElement" -> BrushOriginElement_paint(e)
      [] e.class = "ClipRegionElement" -> ClipRegionElement_paint(e)
      [] e.class = "ClipPathElement" -> ClipPathElement_paint(e)
      [] e.class = "CompositionElement" -> CompositionElement_paint(e)
      [] e.class = "FontElement" -> FontElement_paint(e)
      [] e.class = "TransformElement" -> TransformElement_paint(e)
      [] e.class = "ClipEnabledElement" -> ClipEnabledElement_paint(e)
      [] e.class = "PenElement" -> PenElement_paint(e)
      [] e.class = "HintsElement" -> HintsElement_paint(e)

\* ------------------------------------------------------ RecordPaintDevice
\* addElement of the device the engine records into: the element goes to
\* the end of the device's list.
RecordPaintDevice_addElement(list, e) == Append(list, e)

RECURSIVE AddAll(_, _)
AddAll(list, es) ==
    IF es = <<>> THEN list
    ELSE AddAll(RecordPaintDevice_addElement(list, Head(es)), Tail(es))

\* play(QPainter&) of the device: paint() of every element, first to last.
\* Result: the painter calls issued and the list as the paints leave it.
RECURSIVE RecordPaintDevice_play(_, _, _)
RecordPaintDevice_play(list, i, acc) ==
    IF i > Len(list) THEN acc
    ELSE LET r == paint(list[i])
         IN RecordPaintDevice_play(list, i + 1,
                [calls |-> Append(acc.calls, r.call),
                 list |-> [acc.list EXCEPT ![i] = r.self]])
Play(list) == RecordPaintDevice_play(list, 1, [calls |-> <<>>, list |-> list])

\* One replay of the list of device s onto the fresh target t.
Replay(t, s) ==
    /\ ub = "none"
    /\ ~target[t].played
    /\ LET r == Play(elements[s])
       IN  /\ elements' = [elements EXCEPT ![s] = r.list]
           /\ target' = [target EXCEPT ![t] =
                            [played |-> TRUE, calls |-> r.calls, from |-> s,
                             before |-> elements[s]]]
    /\ UNCHANGED <<pdev, ret, ub, buf, hist>>

\* The renderers a list is replayed onto: one with every capability, one
\* that cannot draw text, one whose every capability call fails.
Renderers == {"full", "notext", "none"}
Supports(rend, fn) ==
    CASE rend = "full" -> TRUE
      [] rend = "notext" -> fn # "drawText"
      [] rend = "none" -> FALSE

\* play(QPainter&) onto the renderer rend: the loop ends with the first
\* call the renderer fails, and the failure is the result of the replay;
\* a loop that reaches the end of the list reports success.
RECURSIVE RecordPaintDevice_playOn(_, _, _, _)
RecordPaintDevice_playOn(list, i, acc, rend) ==
    IF i > Len(list) THEN [acc EXCEPT !.result = "success"]
    ELSE LET r == paint(list[i])
             issued == Append(acc.calls, r.call)
         IN  IF Supports(rend, r.call[1])
             THEN RecordPaintDevice_playOn(list, i + 1,
                      [calls |-> issued,
                       list |-> [acc.list EXCEPT ![i] = r.self],
                       result |-> acc.result], rend)
             ELSE [acc EXCEPT !.calls = issued, !.result = "failure"]
PlayOn(list, rend) ==
    RecordPaintDevice_playOn(list, 1,
        [calls |-> <<>>, list |-> list, result |-> "running"], rend)

\* One replay of the list of device s onto the fresh target t, a renderer
\* of kind rend.
ReplayOnto(t, s, rend) ==
    /\ ub = "none"
    /\ ~target[t].played
    /\ LET r == PlayOn(elements[s], rend)
       IN  /\ elements' = [elements EXCEPT ![s] = r.list]
           /\ target' = [target EXCEPT ![t] =
                            [played |-> TRUE, calls |-> r.calls, from |-> s,
                             before |-> elements[s], renderer |-> rend,
                             result |-> r.result]]
    /\ UNCHANGED <<pdev, ret, ub, buf, hist>>

\* ------------------------------------------------------ RecordPaintEngine
NoRet == [op |-> "none", arg |-> Null, val |-> FALSE]
NoArg == [op |-> "none"]
ToBool(i) == i # 0

\* (RecordPaintDevice*)(pdev): a C cast down the class hierarchy keeps the
\* address, whatever the class of the object behind it.
RecordPaintDevice_cast(p) == p
IsRecordPaintDevice(p) == p \in Surfaces

\* What a member call through _pdev does when _pdev is not a
\* RecordPaintDevice: undefined behaviour.  The null pointer faults; a
\* foreign object faults or has memory of the process overwritten.  The
\* model follows the program no further in either case.
InvalidDeref(p) == IF p = Null THEN {"crash"} ELSE {"crash", "corrupt"}

\* Mutant: the element goes to the front of the list.
addElements_front(es) ==
    IF es = <<>>
    THEN elements' = elements /\ ub' = ub
    ELSE IF IsRecordPaintDevice(pdev)
         THEN /\ elements' = [elements EXCEPT ![pdev] = es \o @]
              /\ ub' = ub
         ELSE /\ elements' = elements
              /\ ub' \in InvalidDeref(pdev)

\* _pdev->addElement(e) for the elements es, in order.
addElements(es) ==
    IF es = <<>>
    THEN elements' = elements /\ ub' = ub
    ELSE IF IsRecordPaintDevice(pdev)
         THEN /\ elements' = [elements EXCEPT ![pdev] = AddAll(@, es)]
              /\ ub' = ub
         ELSE /\ elements' = elements
              /\ ub' \in InvalidDeref(pdev)

\* History variable: the notification n reached the engine while bound.
Record(n) ==
    hist' = IF IsRecordPaintDevice(pdev)
            THEN [hist EXCEPT ![pdev] = Append(@, n)]
            ELSE hist

RecordPaintEngine == 
    /\ pdev = Null
    /\ ret = NoRet
    /\ ub = "none"

\* Mutant: begin() starts the device with an empty list.
begin_clear(p) ==
    /\ ub = "none"
    /\ pdev' = RecordPaintDevice_cast(p)
    /\ ret' = [op |-> "begin", arg |-> p, val |-> ToBool(1)]
    /\ elements' = [s \in Surfaces |-> IF s = p THEN <<>> ELSE elements[s]]
    /\ UNCHANGED <<ub, buf, target, hist>>

\* Mutant: begin() binds only an engine that holds no device yet.
begin_once(p) ==
    /\ ub = "none"
    /\ pdev' = IF pdev = Null THEN RecordPaintDevice_cast(p) ELSE pdev
    /\ ret' = [op |-> "begin", arg |-> p, val |-> ToBool(1)]
    /\ UNCHANGED <<elements, ub, buf, target, hist>>

\* Mutant: begin() opens the list of the device with the identity transform.
begin_transform(p) ==
    /\ ub = "none"
    /\ pdev' = RecordPaintDevice_cast(p)
    /\ ret' = [op |-> "begin", arg |-> p, val |-> ToBool(1)]
    /\ elements' = [s \in Surfaces |->
                      IF s = p
                      THEN Append(elements[s], TransformElement("identity"))
                      ELSE elements[s]]
    /\ UNCHANGED <<ub, buf, target, hist>>

begin(p) ==
    /\ ub = "none"
    /\ pdev' = RecordPaintDevice_cast(p)
    /\ ret' = [op |-> "begin", arg |-> p, val |-> ToBool(1)]
    /\ UNCHANGED <<elements, ub, buf, target, hist>>

drawEllipse_QRectF(rect) ==
    /\ ub = "none"
    /\ addElements(<<EllipseElement(rect)>>)
    /\ Record([op |-> "drawEllipse", T |-> "QRectF", rect |-> rect])
    /\ UNCHANGED <<pdev, ret, buf, target>>

\* EllipseElement takes a QRectF: the QRect converts, value by value.
QRectF_QRect(r) == [ty |-> "QRectF", x |-> r.x, y |-> r.y, w |-> r.w, h |-> r.h]
drawEllipse_QRect(rect) ==
    /\ ub = "none"
    /\ addElements(<<EllipseElement(QRectF_QRect(rect))>>)
    /\ Record([op |-> "drawEllipse", T |-> "QRect", rect |-> rect])
    /\ UNCHANGED <<pdev, ret, buf, target>>

drawImage(rectangle, image, sr, flags) ==
    /\ ub = "none"
    /\ addElements(<<ImageElement(rectangle, image, sr, flags)>>)
    /\ Record([op |-> "drawImage", rect |-> rectangle, image |-> image,
               sr |-> sr, flags |-> flags])
    /\ UNCHANGED <<pdev, ret, buf, target>>

drawLines_QLineF(lines, lineCount) ==
    /\ ub = "none"
    /\ addElements(<<lineElement("QLineF", lines, lineCount)>>)
    /\ Record([op |-> "drawLines", T |-> "QLineF", array |-> lines,
               count |-> lineCount])
    /\ UNCHANGED <<pdev, ret, buf, target>>

\* Mutant: the QLine overload builds the QLineF element.
drawLines_QLine_asF(lines, lineCount) ==
    /\ ub = "none"
    /\ addElements(<<lineElement("QLineF", lines, lineCount)>>)
    /\ Record([op |-> "drawLines", T |-> "QLine", array |-> lines,
               count |-> lineCount])
    /\ UNCHANGED <<pdev, ret, buf, target>>

drawLines_QLine(lines, lineCount) ==
    /\ ub = "none"
    /\ addElements(<<lineElement("QLine", lines, lineCount)>>)
    /\ Record([op |-> "drawLines", T |-> "QLine", array |-> lines,
               count |-> lineCount])
    /\ UNCHANGED <<pdev, ret, buf, target>>

drawPath(path) ==
    /\ ub = "none"
    /\ addElements(<<PathElement(path)>>)
    /\ Record([op |-> "drawPath", path |-> path])
    /\ UNCHANGED <<pdev, ret, buf, target>>

drawPixmap(r, pm, sr) ==
    /\ ub = "none"
    /\ addElements(<<PixmapElement(r, pm, sr)>>)
    /\ Record([op |-> "drawPixmap", r |-> r, pm |-> pm, sr |-> sr])
    /\ UNCHANGED <<pdev, ret, buf, target>>

drawPoints_QPointF(points, pointCount) ==
    /\ ub = "none"
    /\ addElements(<<pointElement("QPointF", points, pointCount)>>)
    /\ Record([op |-> "drawPoints", T |-> "QPointF", array |-> points,
               count |-> pointCount])
    /\ UNCHANGED <<pdev, ret, buf, target>>

drawPoints_QPoint(points, pointCount) ==
    /\ ub = "none"
    /\ addElements(<<pointElement("QPoint", points, pointCount)>>)
    /\ Record([op |-> "drawPoints", T |-> "QPoint", array |-> points,
               count |-> pointCount])
    /\ UNCHANGED <<pdev, ret, buf, target>>

drawPolygon_QPointF(points, pointCount, mode) ==
    /\ ub = "none"
    /\ addElements(<<polyElement("QPointF", points, pointCount, mode)>>)
    /\ Record([op |-> "drawPolygon", T |-> "QPointF", array |-> points,
               count |-> pointCount, mode |-> mode])
    /\ UNCHANGED <<pdev, ret, buf, target>>

drawPolygon_QPoint(points, pointCount, mode) ==
    /\ ub = "none"
    /\ addElements(<<polyElement("QPoint", points, pointCount, mode)>>)
    /\ Record([op |-> "drawPolygon", T |-> "QPoint", array |-> points,
               count |-> pointCount, mode |-> mode])
    /\ UNCHANGED <<pdev, ret, buf, target>>

\* Mutant: a notification without rectangles is dropped.
drawRects_QRectF_nonempty(rects, rectCount) ==
    /\ ub = "none"
    /\ addElements(IF rectCount = 0 THEN <<>>
                   ELSE <<rectElement("QRectF", rects, rectCount)>>)
    /\ Record([op |-> "drawRects", T |-> "QRectF", array |-> rects,
               count |-> rectCount])
    /\ UNCHANGED <<pdev, ret, buf, target>>

drawRects_QRectF(rects, rectCount) ==
    /\ ub = "none"
    /\ addElements(<<rectElement("QRectF", rects, rectCount)>>)
    /\ Record([op |-> "drawRects", T |-> "QRectF", array |-> rects,
               count |-> rectCount])
    /\ UNCHANGED <<pdev, ret, buf, target>>

drawRects_QRect(rects, rectCount) ==
    /\ ub = "none"
    /\ addElements(<<rectElement("QRect", rects, rectCount)>>)
    /\ Record([op |-> "drawRects", T |-> "QRect", array |-> rects,
               count |-> rectCount])
    /\ UNCHANGED <<pdev, ret, buf, target>>

drawTextItem(p, textItem) ==
    /\ ub = "none"
    /\ addElements(<<TextElement(p, textItem)>>)
    /\ Record([op |-> "drawTextItem", p |-> p, textItem |-> textItem])
    /\ UNCHANGED <<pdev, ret, buf, target>>

drawTiledPixmap(rect, pixmap, p) ==
    /\ ub = "none"
    /\ addElements(<<TiledPixmapElement(rect, pixmap, p)>>)
    /\ Record([op |-> "drawTiledPixmap", rect |-> rect, pixmap |-> pixmap,
               p |-> p])
    /\ UNCHANGED <<pdev, ret, buf, target>>

\* Mutant: end() empties the list of the bound device.
end_clear ==
    /\ ub = "none"
    /\ ret' = [op |-> "end", arg |-> Null, val |-> ToBool(1)]
    /\ elements' = [s \in Surfaces |-> IF s = pdev THEN <<>> ELSE elements[s]]
    /\ UNCHANGED <<pdev, ub, buf, target, hist>>

end ==
    /\ ub = "none"
    /\ ret' = [op |-> "end", arg |-> Null, val |-> ToBool(1)]
    /\ UNCHANGED <<pdev, elements, ub, buf, target, hist>>

\* QPaintEngine::Type: the identifiers from User to MaxUser are left to
\* engines defined outside Qt, the ones below User name Qt's own engines.
QPaintEngine_User == 50
QPaintEngine_MaxUser == 100

\* Mutant: the offset is returned without QPaintEngine::User added.
type_raw ==
    /\ ub = "none"
    /\ ret' = [op |-> "type", arg |-> Null, val |-> 34]
    /\ UNCHANGED <<pdev, elements, ub, buf, target, hist>>

type ==
    /\ ub = "none"
    /\ ret' = [op |-> "type", arg |-> Null, val |-> QPaintEngine_User + 34]
    /\ UNCHANGED <<pdev, elements, ub, buf, target, hist>>

\* The chain of tests of updateState: the elements it creates, in order.
If(c, e) == IF c THEN <<e>> ELSE <<>>
\* Mutant: the transform is tested before the font.
updateState_elements_swapped(state) ==
    LET flags == state.state
        v == state.val
    IN  If("DirtyBackground" \in flags,
           BackgroundBrushElement(v["backgroundBrush"]))
     \o If("DirtyBackgroundMode" \in flags,
           BackgroundModeElement(v["backgroundMode"]))
     \o If("DirtyBrush" \in flags, BrushElement(v["brush"]))
     \o If("DirtyBrushOrigin" \in flags,
           BrushOriginElement(v["brushOrigin"]))
     \o If("DirtyClipRegion" \in flags,
           ClipRegionElement(v["clipOperation"], v["clipRegion"]))
     \o If("DirtyClipPath" \in flags,
           ClipPathElement(v["clipOperation"], v["clipPath"]))
     \o If("DirtyCompositionMode" \in flags,
           CompositionElement(v["compositionMode"]))
     \o If("DirtyTransform" \in flags, TransformElement(v["transform"]))
     \o If("DirtyFont" \in flags, FontElement(v["font"]))
     \o If("DirtyClipEnabled" \in flags,
           ClipEnabledElement(v["isClipEnabled"]))
     \o If("DirtyPen" \in flags, PenElement(v["pen"]))
     \o If("DirtyHints" \in flags, HintsElement(v["renderHints"]))

\* Mutant: the render hints are recorded on the test of the pen flag.
updateState_elements_pen(state) ==
    LET flags == state.state
        v == state.val
    IN  If("DirtyBackground" \in flags,
           BackgroundBrushElement(v["backgroundBrush"]))
     \o If("DirtyBackgroundMode" \in flags,
           BackgroundModeElement(v["backgroundMode"]))
     \o If("DirtyBrush" \in flags, BrushElement(v["brush"]))
     \o If("DirtyBrushOrigin" \in flags,
           BrushOriginElement(v["brushOrigin"]))
     \o If("DirtyClipRegion" \in flags,
           ClipRegionElement(v["clipOperation"], v["clipRegion"]))
     \o If("DirtyClipPath" \in flags,
           ClipPathElement(v["clipOperation"], v["clipPath"]))
     \o If("DirtyCompositionMode" \in flags,
           CompositionElement(v["compositionMode"]))
     \o If("DirtyFont" \in flags, FontElement(v["font"]))
     \o If("DirtyTransform" \in flags, TransformElement(v["transform"]))
     \o If("DirtyClipEnabled" \in flags,
           ClipEnabledElement(v["isClipEnabled"]))
     \o If("DirtyPen" \in flags, PenElement(v["pen"]))
     \o If("DirtyPen" \in flags, HintsElement(v["renderHints"]))

updateState_elements(state) ==
    LET flags == state.state
        v == state.val
    IN  If("DirtyBackground" \in flags,
           BackgroundBrushElement(v["backgroundBrush"]))
     \o If("DirtyBackgroundMode" \in flags,
           BackgroundModeElement(v["backgroundMode"]))
     \o If("DirtyBrush" \in flags, BrushElement(v["brush"]))
     \o If("DirtyBrushOrigin" \in flags,
           BrushOriginElement(v["brushOrigin"]))
     \o If("DirtyClipRegion" \in flags,
           ClipRegionElement(v["clipOperation"], v["clipRegion"]))
     \o If("DirtyClipPath" \in flags,
           ClipPathElement(v["clipOperation"], v["clipPath"]))
     \o If("DirtyCompositionMode" \in flags,
           CompositionElement(v["compositionMode"]))
     \o If("DirtyFont" \in flags, FontElement(v["font"]))
     \o If("DirtyTransform" \in flags, TransformElement(v["transform"]))
     \o If("DirtyClipEnabled" \in flags,
           ClipEnabledElement(v["isClipEnabled"]))
     \o If("DirtyPen" \in flags, PenElement(v["pen"]))
     \o If("DirtyHints" \in flags, HintsElement(v["renderHints"]))

updateState(state) ==
    /\ ub = "none"
    /\ addElements(updateState_elements(state))
    /\ Record([op |-> "updateState", state |-> state])
    /\ UNCHANGED <<pdev, ret, buf, target>>

\* ------------------------------------------------------------- the host
\* The caller's array: allocated with some content, overwritten or released
\* by the caller between notifications.
NewBuf == [alive |-> TRUE, data |-> <<"e1", "e2">>]

\* The painter states and flag sets of the updateState notifications of Spec
\* (SpecExpand takes every subset of the flags the engine tests).
StateSamples ==
    {PaintEngineState({}, "v1"),
     PaintEngineState({"DirtyTransform", "DirtyFont"}, "v1"),
     PaintEngineState({"DirtyTransform", "DirtyFont"}, "v2"),
     PaintEngineState({"DirtyClipRegion", "DirtyClipPath", "DirtyOpacity"},
                      "v2")}

\* Replay targets: fresh painters, each played onto at most once.
Targets == {"t1", "t2"}
Fresh == [played |-> FALSE, calls |-> <<>>, from |-> Null, before |-> <<>>]
NoTargets == [t \in Targets |-> Fresh]

NotesSoFar == Len(hist["A"]) + Len(hist["B"])
\* The host delivers notifications while recording, before any replay.
MayNotify == NotesSoFar < MaxNotes /\ arg = NoArg /\ target = NoTargets

Constructed ==
    /\ RecordPaintEngine
    /\ elements = [s \in Surfaces |-> <<>>]
    /\ hist = [s \in Surfaces |-> <<>>]
    /\ target = NoTargets

Init ==
    /\ Constructed
    /\ buf = NewBuf
    /\ arg = NoArg

Begin == \E p \in Handles : begin(p) /\ UNCHANGED arg
End == end /\ UNCHANGED arg
DrawEllipseF ==
    \E r \in QRectFs : MayNotify /\ drawEllipse_QRectF(r) /\ UNCHANGED arg
DrawEllipse ==
    \E r \in QRects : MayNotify /\ drawEllipse_QRect(r) /\ UNCHANGED arg
DrawImage ==
    \E r \in QRectFs, i \in QImages, sr \in QRectFs,
       f \in ImageConversionFlags :
        MayNotify /\ drawImage(r, i, sr, f) /\ UNCHANGED arg
DrawLinesF ==
    MayNotify /\ buf.alive /\ drawLines_QLineF(buf.data, Len(buf.data))
    /\ UNCHANGED arg
DrawLines ==
    MayNotify /\ buf.alive /\ drawLines_QLine(buf.data, Len(buf.data))
    /\ UNCHANGED arg
DrawPath == \E p \in QPainterPaths : MayNotify /\ drawPath(p) /\ UNCHANGED arg
DrawPixmap ==
    \E r \in QRectFs, pm \in QPixmaps, sr \in QRectFs :
        MayNotify /\ drawPixmap(r, pm, sr) /\ UNCHANGED arg
DrawPointsF ==
    MayNotify /\ buf.alive /\ drawPoints_QPointF(buf.data, Len(buf.data))
    /\ UNCHANGED arg
DrawPoints ==
    MayNotify /\ buf.alive /\ drawPoints_QPoint(buf.data, Len(buf.data))
    /\ UNCHANGED arg
DrawPolygonF ==
    \E m \in {"OddEvenMode", "WindingMode"} :
        MayNotify /\ buf.alive
        /\ drawPolygon_QPointF(buf.data, Len(buf.data), m) /\ UNCHANGED arg
DrawPolygon ==
    \E m \in {"ConvexMode", "PolylineMode"} :
        MayNotify /\ buf.alive
        /\ drawPolygon_QPoint(buf.data, Len(buf.data), m) /\ UNCHANGED arg
DrawRectsF ==
    MayNotify /\ buf.alive /\ drawRects_QRectF(buf.data, Len(buf.data))
    /\ UNCHANGED arg
DrawRects ==
    MayNotify /\ buf.alive /\ drawRects_QRect(buf.data, Len(buf.data))
    /\ UNCHANGED arg
DrawTextItem ==
    \E p \in QPointFs, t \in {x \in QTextItems : x.renderFlags = "none"} :
        MayNotify /\ drawTextItem(p, t) /\ UNCHANGED arg
DrawTiledPixmap ==
    \E r \in QRectFs, pm \in QPixmaps, p \in QPointFs :
        MayNotify /\ drawTiledPixmap(r, pm, p) /\ UNCHANGED arg
UpdateState ==
    \E st \in StateSamples : MayNotify /\ updateState(st) /\ UNCHANGED arg

Notify ==
    \/ DrawEllipseF \/ DrawEllipse \/ DrawImage \/ DrawLinesF \/ DrawLines
    \/ DrawPath \/ DrawPixmap \/ DrawPointsF \/ DrawPoints
    \/ DrawPolygonF \/ DrawPolygon \/ DrawRectsF \/ DrawRects
    \/ DrawTextItem \/ DrawTiledPixmap \/ UpdateState

Next == Begin \/ End \/ Notify

Spec == Init /\ [][Next]_vars

\* ============================================================== claims
IsPrefix(a, b) == Len(a) <= Len(b) /\ SubSeq(b, 1, Len(a)) = a
First(array, k) == SubSeq(array, 1, k)
RECURSIVE Flatten(_)
Flatten(ss) == IF ss = <<>> THEN <<>> ELSE Head(ss) \o Flatten(Tail(ss))

\* The order in which the state attributes are listed.
FlagOrder ==
    <<"DirtyBackground", "DirtyBackgroundMode", "DirtyBrush",
      "DirtyBrushOrigin", "DirtyClipRegion", "DirtyClipPath",
      "DirtyCompositionMode", "DirtyFont", "DirtyTransform",
      "DirtyClipEnabled", "DirtyPen", "DirtyHints">>

\* The painter call that sets the attribute of flag f to its value in val.
StateCall(f, val) ==
    CASE f = "DirtyBackground" -> <<"setBackground", val["backgroundBrush"]>>
      [] f = "DirtyBackgroundMode" ->
            <<"setBackgroundMode", val["backgroundMode"]>>
      [] f = "DirtyBrush" -> <<"setBrush", val["brush"]>>
      [] f = "DirtyBrushOrigin" -> <<"setBrushOrigin", val["brushOrigin"]>>
      [] f = "DirtyClipRegion" ->
            <<"setClipRegion", val["clipRegion"], val["clipOperation"]>>
      [] f = "DirtyClipPath" ->
            <<"setClipPath", val["clipPath"], val["clipOperation"]>>
      [] f = "DirtyCompositionMode" ->
            <<"setCompositionMode", val["compositionMode"]>>
      [] f = "DirtyFont" -> <<"setFont", val["font"]>>
      [] f = "DirtyTransform" -> <<"setWorldTransform", val["transform"]>>
      [] f = "DirtyClipEnabled" -> <<"setClipping", val["isClipEnabled"]>>
      [] f = "DirtyPen" -> <<"setPen", val["pen"]>>
      [] f = "DirtyHints" -> <<"setRenderHints", val["renderHints"]>>

\* The dirty-flag expansion: one call per set flag, in FlagOrder.
RECURSIVE Expansion(_, _)
Expansion(state, i) ==
    IF i > Len(FlagOrder) THEN <<>>
    ELSE (IF FlagOrder[i] \in state.state
          THEN <<StateCall(FlagOrder[i], state.val)>> ELSE <<>>)
         \o Expansion(state, i + 1)

\* The painter calls a notification stands for, from its arguments as they
\* were when it was delivered.
ExpectedCalls(n) ==
    CASE n.op = "drawEllipse" ->
            <<<<"drawEllipse", [ty |-> "QRectF", x |-> n.rect.x,
                                y |-> n.rect.y, w |-> n.rect.w,
                                h |-> n.rect.h]>>>>
      [] n.op = "drawImage" ->
            <<<<"drawImage", n.rect, n.image, n.sr, n.flags>>>>
      [] n.op = "drawLines" ->
            <<<<"drawLines", n.T, First(n.array, n.count)>>>>
      [] n.op = "drawPath" -> <<<<"drawPath", n.path>>>>
      [] n.op = "drawPixmap" -> <<<<"drawPixmap", n.r, n.pm, n.sr>>>>
      [] n.op = "drawPoints" ->
            <<<<"drawPoints", n.T, First(n.array, n.count)>>>>
      [] n.op = "drawPolygon" ->
            <<CASE n.mode = "OddEvenMode" ->
                    <<"drawPolygon", n.T, First(n.array, n.count),
                      "OddEvenFill">>
                [] n.mode = "WindingMode" ->
                    <<"drawPolygon", n.T, First(n.array, n.count),
                      "WindingFill">>
                [] n.mode = "ConvexMode" ->
                    <<"drawConvexPolygon", n.T, First(n.array, n.count)>>
                [] n.mode = "PolylineMode" ->
                    <<"drawPolyline", n.T, First(n.array, n.count)>> >>
      [] n.op = "drawRects" ->
            <<<<"drawRects", n.T, First(n.array, n.count)>>>>
      [] n.op = "drawTextItem" -> <<<<"drawText", n.p, n.textItem.text>>>>
      [] n.op = "drawTiledPixmap" ->
            <<<<"drawTiledPixmap", n.rect, n.pixmap, n.p>>>>
      [] n.op = "updateState" -> Expansion(n.state, 1)

ExpectedReplay(h) == Flatten([i \in 1..Len(h) |-> ExpectedCalls(h[i])])

\* C1: order preservation.  On every recording device, replaying the list
\* front to back issues, in the order of the notifications delivered while
\* the engine was bound to the device, the calls each notification stands
\* for (one per drawing notification, the flag expansion per updateState)
\* with the arguments of that time; the list has one element per call.
C1_OrderPreserved ==
    \A s \in Surfaces :
        /\ Play(elements[s]).calls = ExpectedReplay(hist[s])
        /\ Len(elements[s]) = Len(ExpectedReplay(hist[s]))

\* Two notifications of different kinds, a state change among them, have
\* been recorded on one device.
C1_Witness ==
    \E s \in Surfaces :
        /\ Len(hist[s]) = 2
        /\ hist[s][1].op = "updateState"
        /\ hist[s][1].state.state = {"DirtyTransform", "DirtyFont"}
        /\ hist[s][2].op = "drawLines"
        /\ Len(elements[s]) = 3

\* C4 as claimed: begin returns success exactly when the handle is a
\* recording device, and an invalid handle leaves the engine unbound.
C4_BeginValidates ==
    ret.op = "begin" =>
        /\ ret.val = IsRecordPaintDevice(ret.arg)
        /\ (~IsRecordPaintDevice(ret.arg) => pdev # ret.arg)

\* C5 as claimed: after end() the engine holds no bound device.
C5_EndUnbinds == ret.op = "end" => pdev = Null

\* C6: end() returns success and leaves the list of every device as it was.
C6_EndKeepsLogs ==
    [][end => (ret'.val = TRUE /\ elements' = elements)]_vars

\* end() has returned while two devices hold recorded elements.
C6_Witness ==
    /\ ret.op = "end"
    /\ \A s \in Surfaces : elements[s] # <<>>

\* C7: append-only.  Over every step of the engine whose behaviour is
\* defined, the list of every device before the step is a prefix of its
\* list after it.
C7_AppendOnly ==
    [][ub' = "none" => \A s \in Surfaces : IsPrefix(elements[s], elements'[s])]_vars

\* A device holds two elements recorded by separate notifications, and the
\* session on it has been ended.
C7_Witness ==
    \E s \in Surfaces :
        /\ Len(hist[s]) = 2 /\ Len(elements[s]) >= 2
        /\ pdev = s /\ ret.op = "end"

\* ------------------------------------------------- one updateState call
\* SpecExpand: the host has one updateState notification to deliver, with
\* any subset of the flags the engine tests set, to an engine recording
\* into device A, after at most one drawing notification.
ExpandArgs ==
    {[op |-> "updateState", state |-> PaintEngineState(f, v)] :
        f \in SUBSET DirtyFlags, v \in Versions}

InitExpand ==
    /\ Constructed
    /\ buf = NewBuf
    /\ arg \in ExpandArgs

BeginA == begin("A") /\ UNCHANGED arg
FirstDraw ==
    \E r \in QRectFs :
        /\ arg # NoArg /\ IsRecordPaintDevice(pdev) /\ hist[pdev] = <<>>
        /\ drawEllipse_QRectF(r) /\ UNCHANGED arg
DeliverUpdateState ==
    /\ arg.op = "updateState"
    /\ updateState(arg.state)
    /\ arg' = NoArg

NextExpand == BeginA \/ FirstDraw \/ DeliverUpdateState

SpecExpand == InitExpand /\ [][NextExpand]_vars

\* The element class that records the attribute of flag f.
StateClass(f) ==
    CASE f = "DirtyBackground" -> "BackgroundBrushElement"
      [] f = "DirtyBackgroundMode" -> "BackgroundModeElement"
      [] f = "DirtyBrush" -> "BrushElement"
      [] f = "DirtyBrushOrigin" -> "BrushOriginElement"
      [] f = "DirtyClipRegion" -> "ClipRegionElement"
      [] f = "DirtyClipPath" -> "ClipPathElement"
      [] f = "DirtyCompositionMode" -> "CompositionElement"
      [] f = "DirtyFont" -> "FontElement"
      [] f = "DirtyTransform" -> "TransformElement"
      [] f = "DirtyClipEnabled" -> "ClipEnabledElement"
      [] f = "DirtyPen" -> "PenElement"
      [] f = "DirtyHints" -> "HintsElement"

\* A step that delivers the pending updateState to a recording device.
Delivered ==
    arg # NoArg /\ arg' = NoArg /\ arg.op = "updateState"
    /\ IsRecordPaintDevice(pdev)
Added == SubSeq(elements'[pdev], Len(elements[pdev]) + 1, Len(elements'[pdev]))

\* C2: dirty-flag expansion count.  One updateState with the flags S set
\* appends exactly |S| elements to the bound list: for each set flag one
\* element of the matching class, carrying the value the attribute has in
\* the notification, and none for a flag that is not set; with S empty the
\* list is unchanged.
C2_ExpansionCount ==
    [][Delivered =>
        LET S == arg.state.state
        IN  /\ IsPrefix(elements[pdev], elements'[pdev])
            /\ Len(Added) = Cardinality(S)
            /\ \A f \in DirtyFlags :
                LET hits == {i \in 1..Len(Added) :
                                Added[i].class = StateClass(f)}
                IN  IF f \in S
                    THEN /\ Cardinality(hits) = 1
                         /\ \A i \in hits :
                              paint(Added[i]).call
                                  = StateCall(f, arg.state.val)
                    ELSE hits = {}
            /\ \A s \in Surfaces \ {pdev} : elements'[s] = elements[s]]_vars

\* An updateState with all twelve flags set has been delivered after a
\* drawing notification.
C2_Witness ==
    /\ arg = NoArg
    /\ Len(hist["A"]) = 2
    /\ hist["A"][2].op = "updateState"
    /\ hist["A"][2].state.state = DirtyFlags
    /\ Len(elements["A"]) = 13

\* C3: dirty-flag expansion order.  The elements one updateState appends
\* are in the fixed order of FlagOrder, whatever the subset of flags; for
\* the flags {transform, font} they are exactly the font element followed
\* by the transform element.
C3_ExpansionOrder ==
    [][Delivered =>
        /\ [i \in 1..Len(Added) |-> Added[i].class]
             = SelectSeq([i \in 1..Len(FlagOrder) |-> StateClass(FlagOrder[i])],
                         LAMBDA c : \E f \in arg.state.state : StateClass(f) = c)
        /\ (arg.state.state = {"DirtyTransform", "DirtyFont"} =>
              Added = <<FontElement(arg.state.val["font"]),
                        TransformElement(arg.state.val["transform"])>>)]_vars

\* An updateState with the flags {transform, font} has been delivered and
\* the bound list ends with the two elements it added.
C3_Witness ==
    /\ arg = NoArg
    /\ hist["A"] # <<>>
    /\ hist["A"][Len(hist["A"])].state.state = {"DirtyTransform", "DirtyFont"}
    /\ Len(elements["A"]) >= 2
    /\ elements["A"][Len(elements["A"])].class = "TransformElement"

\* ------------------------------------------------ one batch notification
\* SpecBatch: the host has one batch notification to deliver from its array
\* to an engine recording into device A; the caller overwrites and releases
\* the array as it likes; the list is replayed after the notification.
MaxBuf == 2

RECURSIVE ArraysUpTo(_)
ArraysUpTo(k) ==
    IF k = 0 THEN {<<>>}
    ELSE LET S == ArraysUpTo(k - 1)
         IN  S \cup {Append(a, e) : a \in {x \in S : Len(x) = k - 1},
                                    e \in Elems}

BatchArgs ==
    {[op |-> o, T |-> t, mode |-> "none"] :
        o \in {"drawLines"}, t \in {"QLineF", "QLine"}}
    \cup {[op |-> o, T |-> t, mode |-> "none"] :
        o \in {"drawPoints"}, t \in {"QPointF", "QPoint"}}
    \cup {[op |-> o, T |-> t, mode |-> "none"] :
        o \in {"drawRects"}, t \in {"QRectF", "QRect"}}
    \cup {[op |-> o, T |-> t, mode |-> m] :
        o \in {"drawPolygon"}, t \in {"QPointF", "QPoint"},
        m \in PolygonDrawModes}

InitBatch ==
    /\ Constructed
    /\ buf \in {[alive |-> TRUE, data |-> d] : d \in ArraysUpTo(MaxBuf)}
    /\ arg \in BatchArgs

Pending(o, t) == arg.op = o /\ arg.T = t /\ buf.alive
BatchLinesF ==
    \E n \in 0..Len(buf.data) :
        Pending("drawLines", "QLineF") /\ drawLines_QLineF(buf.data, n)
        /\ arg' = NoArg
BatchLines ==
    \E n \in 0..Len(buf.data) :
        Pending("drawLines", "QLine") /\ drawLines_QLine(buf.data, n)
        /\ arg' = NoArg
BatchPointsF ==
    \E n \in 0..Len(buf.data) :
        Pending("drawPoints", "QPointF") /\ drawPoints_QPointF(buf.data, n)
        /\ arg' = NoArg
BatchPoints ==
    \E n \in 0..Len(buf.data) :
        Pending("drawPoints", "QPoint") /\ drawPoints_QPoint(buf.data, n)
        /\ arg' = NoArg
BatchPolygonF ==
    \E n \in 0..Len(buf.data) :
        Pending("drawPolygon", "QPointF")
        /\ drawPolygon_QPointF(buf.data, n, arg.mode) /\ arg' = NoArg
BatchPolygon ==
    \E n \in 0..Len(buf.data) :
        Pending("drawPolygon", "QPoint")
        /\ drawPolygon_QPoint(buf.data, n, arg.mode) /\ arg' = NoArg
BatchRectsF ==
    \E n \in 0..Len(buf.data) :
        Pending("drawRects", "QRectF") /\ drawRects_QRectF(buf.data, n)
        /\ arg' = NoArg
BatchRects ==
    \E n \in 0..Len(buf.data) :
        Pending("drawRects", "QRect") /\ drawRects_QRect(buf.data, n)
        /\ arg' = NoArg

\* The caller's own use of its array.
MutateBuf ==
    \E i \in 1..Len(buf.data), e \in Elems :
        /\ ub = "none"
        /\ buf.alive /\ buf.data[i] # e
        /\ buf' = [buf EXCEPT !.data[i] = e]
        /\ UNCHANGED <<pdev, elements, ret, ub, target, arg, hist>>
FreeBuf ==
    /\ ub = "none"
    /\ buf.alive
    /\ buf' = [alive |-> FALSE, data |-> <<>>]
    /\ UNCHANGED <<pdev, elements, ret, ub, target, arg, hist>>

ReplayBatch ==
    \E t \in Targets : arg = NoArg /\ Replay(t, "A") /\ UNCHANGED arg

NextBatch ==
    \/ BeginA
    \/ BatchLinesF \/ BatchLines \/ BatchPointsF \/ BatchPoints
    \/ BatchPolygonF \/ BatchPolygon \/ BatchRectsF \/ BatchRects
    \/ MutateBuf \/ FreeBuf \/ ReplayBatch

SpecBatch == InitBatch /\ [][NextBatch]_vars

BatchOps == {"drawLines", "drawPoints", "drawPolygon", "drawRects"}
\* The copy a batch element holds.
Content(e) ==
    CASE e.class = "lineElement" -> e.lines
      [] e.class = "pointElement" -> e.pts
      [] e.class = "polyElement" -> e.pts
      [] e.class = "rectElement" -> e.rects

\* C8: snapshot isolation.  The element recorded by a batch notification
\* with count n holds the array's first n entries as they were when the
\* notification was delivered, in their order, whatever the caller has done
\* to the array since; every replay draws those entries.
C8_SnapshotIsolation ==
    \A s \in Surfaces :
        Len(elements[s]) = Len(hist[s]) =>
            \A i \in 1..Len(hist[s]) :
                hist[s][i].op \in BatchOps =>
                    /\ Content(elements[s][i])
                         = First(hist[s][i].array, hist[s][i].count)
                    /\ \A t \in Targets :
                         (target[t].played /\ target[t].from = s) =>
                            /\ Len(target[t].calls) = Len(hist[s])
                            /\ target[t].calls[i]
                                 = ExpectedCalls(hist[s][i])[1]

\* Two line segments were recorded, the caller has since overwritten or
\* released its array, and the list has been replayed.
C8_Witness ==
    /\ Len(hist["A"]) = 1
    /\ hist["A"][1].op = "drawLines"
    /\ hist["A"][1].count = 2
    /\ buf.data # hist["A"][1].array
    /\ \A t \in Targets : target[t].played

\* The painter primitive, and fill rule if any, of a polygon draw mode.
ModePrimitive(mode) ==
    CASE mode = "OddEvenMode" -> <<"drawPolygon", "OddEvenFill">>
      [] mode = "WindingMode" -> <<"drawPolygon", "WindingFill">>
      [] mode = "ConvexMode" -> <<"drawConvexPolygon">>
      [] mode = "PolylineMode" -> <<"drawPolyline">>

\* C9: polygon fill-mode dispatch.  A polygon element replays through one
\* primitive, the one of the draw mode given with the notification (with
\* that mode's fill rule), whatever points were recorded.
C9_PolygonDispatch ==
    \A s \in Surfaces, t \in Targets :
        (target[t].played /\ target[t].from = s
            /\ Len(elements[s]) = Len(hist[s])) =>
            /\ Len(target[t].calls) = Len(hist[s])
            /\ \A i \in 1..Len(hist[s]) :
                hist[s][i].op = "drawPolygon" =>
                    LET c == target[t].calls[i]
                        m == ModePrimitive(hist[s][i].mode)
                    IN  /\ c[1] = m[1]
                        /\ Len(c) = Len(m) + 2
                        /\ (Len(m) = 2 => c[4] = m[2])

\* A polygon given with the convex mode has been replayed.
C9_Witness ==
    \E t \in Targets :
        /\ target[t].played
        /\ Len(hist["A"]) = 1
        /\ hist["A"][1].op = "drawPolygon"
        /\ hist["A"][1].mode = "ConvexMode"
        /\ hist["A"][1].count = 2
        /\ target[t].calls[1][1] = "drawConvexPolygon"

\* ------------------------------------------------------ record, then replay
\* SpecReplay: a session of recording into device A; once end() has
\* returned, the list is replayed onto fresh targets, and nothing is
\* recorded after the first replay.
BeginRecording == target = NoTargets /\ BeginA
ReplayRecorded ==
    \E t \in Targets : ret.op = "end" /\ Replay(t, "A") /\ UNCHANGED arg

NextReplay == BeginRecording \/ Notify \/ End \/ ReplayRecorded

SpecReplay == Init /\ [][NextReplay]_vars

\* C10: idempotent, non-destructive replay.  After a replay the list it
\* played is what it was before the replay, element by element, and two
\* replays of the same list onto two fresh targets issue the same calls,
\* one per element.
C10_ReplayIdempotent ==
    /\ \A t \in Targets :
        target[t].played =>
            /\ elements[target[t].from] = target[t].before
            /\ Len(target[t].calls) = Len(target[t].before)
    /\ \A t1, t2 \in Targets :
        (target[t1].played /\ target[t2].played
            /\ target[t1].from = target[t2].from) =>
            target[t1].calls = target[t2].calls

\* A list holding a batch of lines and the elements of a state change has
\* been replayed onto both targets.
C10_Witness ==
    /\ \A t \in Targets : target[t].played /\ target[t].from = "A"
    /\ Len(elements["A"]) = 3
    /\ \E i \in 1..3 : elements["A"][i].class = "lineElement"
    /\ \E i \in 1..3 : elements["A"][i].class = "FontElement"

\* SpecReplayOnto: as SpecReplay, with the list replayed onto renderers of
\* every kind, so that a replay has a result, success or failure.
ReplayRecordedOnto ==
    \E t \in Targets, rend \in Renderers :
        ret.op = "end" /\ ReplayOnto(t, "A", rend) /\ UNCHANGED arg

NextReplayOnto == BeginRecording \/ Notify \/ End \/ ReplayRecordedOnto

SpecReplayOnto == Init /\ [][NextReplayOnto]_vars

\* C12: empty session.  When a session on a device was begun and ended
\* with no notification delivered in between, the list of the device is
\* empty, and a replay of it onto a renderer of any kind, one whose every
\* capability call fails included, issues no call on the target and
\* reports success.
C12_EmptySessionReplay ==
    \A t \in Targets :
        (target[t].played /\ hist[target[t].from] = <<>>) =>
            /\ target[t].before = <<>>
            /\ target[t].calls = <<>>
            /\ target[t].result = "success"

\* The engine was bound to device A, end() returned, nothing was delivered,
\* and the list of A has been replayed onto a renderer that fails every
\* call and onto one with every capability.
C12_Witness ==
    /\ pdev = "A" /\ ret.op = "end"
    /\ hist["A"] = <<>>
    /\ \A t \in Targets : target[t].played /\ target[t].from = "A"
    /\ target["t1"].renderer = "none" /\ target["t1"].result = "success"
    /\ target["t2"].renderer = "full" /\ target["t2"].result = "success"

\* ------------------------------------------- type, clip and text details
\* SpecDetail: sessions on the two devices in which the host asks for the
\* engine type at any moment and delivers clip changes, with the clip
\* operation and the clip region or path varying separately, and text
\* items that differ in formatting only.
ClipState(flags, v, vo) ==
    [state |-> flags,
     val |-> [a \in Accessors |->
                IF a = "clipOperation" THEN <<a, vo>> ELSE <<a, v>>]]
ClipSamples ==
    {ClipState(f, v, vo) :
        f \in {{"DirtyClipRegion"}, {"DirtyClipPath"},
               {"DirtyClipRegion", "DirtyClipPath"}},
        v \in Versions, vo \in Versions}

Type == type /\ UNCHANGED arg
UpdateClip ==
    \E st \in ClipSamples : MayNotify /\ updateState(st) /\ UNCHANGED arg
DrawTextAny ==
    \E p \in QPointFs, t \in QTextItems :
        MayNotify /\ drawTextItem(p, t) /\ UNCHANGED arg

NextDetail == Begin \/ End \/ Type \/ UpdateClip \/ DrawTextAny

SpecDetail == Init /\ [][NextDetail]_vars

\* C11: type() returns the same identifier, 84, whenever it is called,
\* whatever the engine is bound to and whatever has been recorded, and the
\* identifier is one of those left to user-defined engines: not below
\* QPaintEngine::User and not above QPaintEngine::MaxUser, so it is none of
\* the identifiers of Qt's own engines.
C11_TypeIsUserId ==
    ret.op = "type" =>
        /\ ret.val = 84
        /\ QPaintEngine_User <= ret.val
        /\ ret.val <= QPaintEngine_MaxUser

\* type() has been called on an engine bound to a device that holds
\* recorded elements.
C11_Witness ==
    /\ ret.op = "type"
    /\ pdev = "A"
    /\ elements["A"] # <<>>

IsClipElement(e) == e.class \in {"ClipRegionElement", "ClipPathElement"}
\* The clip calls an updateState notification stands for: the region, then
\* the path, each with the clip operation of the notification's state.
ClipCalls(n) ==
    IF n.op # "updateState" THEN <<>>
    ELSE (IF "DirtyClipRegion" \in n.state.state
          THEN <<<<"setClipRegion", n.state.val["clipRegion"],
                   n.state.val["clipOperation"]>>>>
          ELSE <<>>)
         \o (IF "DirtyClipPath" \in n.state.state
             THEN <<<<"setClipPath", n.state.val["clipPath"],
                      n.state.val["clipOperation"]>>>>
             ELSE <<>>)

\* C14: clip elements carry their clip operation.  The clip-region and
\* clip-path elements of a device's list are, in order, those of the
\* updateState notifications delivered to it, each holding the region or
\* path and the clip operation its own notification had (the same
\* operation in both elements of one notification), and painting each
\* issues setClipRegion / setClipPath with exactly these two values; a
\* later notification with another clip operation leaves the elements
\* recorded before it as they were.
C14_ClipOperationRecorded ==
    \A s \in Surfaces :
        LET clips == SelectSeq(elements[s], IsClipElement)
            calls == Flatten([i \in 1..Len(hist[s]) |-> ClipCalls(hist[s][i])])
        IN  /\ Len(clips) = Len(calls)
            /\ \A i \in 1..Len(clips) :
                /\ clips[i].region = calls[i][2]
                /\ clips[i].op = calls[i][3]
                /\ paint(clips[i]).call = calls[i]

\* A notification with both clip flags set was followed by one with
\* another clip operation: the first two elements hold the first
\* operation, the third the second.
C14_Witness ==
    /\ Len(hist["A"]) = 2
    /\ hist["A"][1].op = "updateState" /\ hist["A"][2].op = "updateState"
    /\ hist["A"][1].state.state = {"DirtyClipRegion", "DirtyClipPath"}
    /\ hist["A"][1].state.val["clipOperation"]
          # hist["A"][2].state.val["clipOperation"]
    /\ Len(elements["A"]) >= 3
    /\ elements["A"][1].op = elements["A"][2].op
    /\ elements["A"][3].op # elements["A"][1].op
    /\ elements["A"][1].op = hist["A"][1].state.val["clipOperation"]

IsTextElement(e) == e.class = "TextElement"
IsTextNote(n) == n.op = "drawTextItem"

\* C15: text is recorded as position and string.  The text elements of a
\* device's list are, in order, those of the text notifications delivered
\* to it; each holds the position and the string of its notification's
\* item and nothing else of the item, so that two notifications with the
\* same position and the same string, whatever the formatting of their
\* items, have equal elements, and painting the element issues
\* drawText(position, string).
C15_TextPositionAndString ==
    \A s \in Surfaces :
        LET texts == SelectSeq(elements[s], IsTextElement)
            notes == SelectSeq(hist[s], IsTextNote)
        IN  /\ Len(texts) = Len(notes)
            /\ \A i \in 1..Len(texts) :
                /\ DOMAIN texts[i] = {"class", "pt", "text"}
                /\ texts[i].pt = notes[i].p
                /\ texts[i].text = notes[i].textItem.text
                /\ paint(texts[i]).call
                      = <<"drawText", notes[i].p, notes[i].textItem.text>>
            /\ \A i, j \in 1..Len(texts) :
                (/\ notes[i].p = notes[j].p
                 /\ notes[i].textItem.text = notes[j].textItem.text)
                    => texts[i] = texts[j]

\* Two text notifications whose items have the same string and different
\* formatting have been recorded at the same position on one device.
C15_Witness ==
    /\ Len(hist["A"]) = 2
    /\ IsTextNote(hist["A"][1]) /\ IsTextNote(hist["A"][2])
    /\ hist["A"][1].p = hist["A"][2].p
    /\ hist["A"][1].textItem.text = hist["A"][2].textItem.text
    /\ hist["A"][1].textItem # hist["A"][2].textItem
    /\ Len(elements["A"]) = 2
    /\ elements["A"][1] = elements["A"][2]

\* ------------------------------------------------ one drawing notification
\* SpecDraw: the host has one drawing notification of any kind to deliver,
\* in either coordinate variant, a batch with any element count from 0 to
\* the length of the caller's array, to an engine recording into device A,
\* after at most one earlier drawing notification.
SingleArgs ==
    {[op |-> "drawEllipse", T |-> t, mode |-> "none"] :
        t \in {"QRectF", "QRect"}}
    \cup {[op |-> o, T |-> "none", mode |-> "none"] :
        o \in {"drawImage", "drawPath", "drawPixmap", "drawTextItem",
               "drawTiledPixmap"}}
DrawArgs == BatchArgs \cup SingleArgs

InitDraw ==
    /\ Constructed
    /\ buf \in {[alive |-> TRUE, data |-> d] : d \in ArraysUpTo(MaxBuf)}
    /\ arg \in DrawArgs

SingleEllipseF ==
    \E r \in QRectFs :
        arg.op = "drawEllipse" /\ arg.T = "QRectF" /\ drawEllipse_QRectF(r)
        /\ arg' = NoArg
SingleEllipse ==
    \E r \in QRects :
        arg.op = "drawEllipse" /\ arg.T = "QRect" /\ drawEllipse_QRect(r)
        /\ arg' = NoArg
SingleImage ==
    \E r \in QRectFs, i \in QImages, sr \in QRectFs,
       f \in ImageConversionFlags :
        arg.op = "drawImage" /\ drawImage(r, i, sr, f) /\ arg' = NoArg
SinglePath ==
    \E p \in QPainterPaths :
        arg.op = "drawPath" /\ drawPath(p) /\ arg' = NoArg
SinglePixmap ==
    \E r \in QRectFs, pm \in QPixmaps, sr \in QRectFs :
        arg.op = "drawPixmap" /\ drawPixmap(r, pm, sr) /\ arg' = NoArg
SingleTextItem ==
    \E p \in QPointFs, t \in QTextItems :
        arg.op = "drawTextItem" /\ drawTextItem(p, t) /\ arg' = NoArg
SingleTiledPixmap ==
    \E r \in QRectFs, pm \in QPixmaps, p \in QPointFs :
        arg.op = "drawTiledPixmap" /\ drawTiledPixmap(r, pm, p)
        /\ arg' = NoArg

NextDraw ==
    \/ BeginA \/ FirstDraw
    \/ BatchLinesF \/ BatchLines \/ BatchPointsF \/ BatchPoints
    \/ BatchPolygonF \/ BatchPolygon \/ BatchRectsF \/ BatchRects
    \/ SingleEllipseF \/ SingleEllipse \/ SingleImage \/ SinglePath
    \/ SinglePixmap \/ SingleTextItem \/ SingleTiledPixmap

SpecDraw == InitDraw /\ [][NextDraw]_vars

\* The class of the element that records a drawing notification.
DrawClass(op) ==
    CASE op = "drawEllipse" -> "EllipseElement"
      [] op = "drawImage" -> "ImageElement"
      [] op = "drawLines" -> "lineElement"
      [] op = "drawPath" -> "PathElement"
      [] op = "drawPixmap" -> "PixmapElement"
      [] op = "drawPoints" -> "pointElement"
      [] op = "drawPolygon" -> "polyElement"
      [] op = "drawRects" -> "rectElement"
      [] op = "drawTextItem" -> "TextElement"
      [] op = "drawTiledPixmap" -> "TiledPixmapElement"

\* C13: one element per drawing notification.  A drawing notification of
\* any kind and coordinate variant delivered to an engine bound to a
\* recording device makes the list of that device longer by exactly one
\* element, added after the ones it held, of the class of the notification
\* (and, for a batch, of its element type and holding as many entries as
\* the count says); a batch notification with count 0 adds one element
\* holding an empty batch.
C13_OneElementPerDraw ==
    [][(arg # NoArg /\ arg' = NoArg /\ IsRecordPaintDevice(pdev)) =>
        LET old == elements[pdev]
            new == elements'[pdev]
            n == hist'[pdev][Len(hist'[pdev])]
        IN  /\ Len(new) = Len(old) + 1
            /\ IsPrefix(old, new)
            /\ n.op = arg.op
            /\ new[Len(new)].class = DrawClass(arg.op)
            /\ arg.op \in BatchOps =>
                   /\ new[Len(new)].T = arg.T
                   /\ Len(Content(new[Len(new)])) = n.count
       ]_vars

\* A batch of rectangles with count 0, taken from an array that is not
\* empty, has been delivered after an earlier drawing notification: the
\* list holds two elements, the second an empty batch.
C13_Witness ==
    /\ arg = NoArg
    /\ Len(hist["A"]) = 2
    /\ hist["A"][2].op = "drawRects" /\ hist["A"][2].T = "QRectF"
    /\ hist["A"][2].count = 0 /\ hist["A"][2].array # <<>>
    /\ Len(elements["A"]) = 2
    /\ elements["A"][2].class = "rectElement"
    /\ elements["A"][2].rects = <<>>

\* --------------------------------------------------- sessions and devices
\* C16: single active target.  The device the engine holds is the one given
\* to the most recent begin(): a begin(p) makes it p, and end() and the
\* notifications leave it alone.  A step changes the list of no device but
\* the one the engine holds; so after begin(A) and then begin(B), with an
\* end() in between or without, notifications change the list of B and the
\* list of A stays as it was.
C16_SingleActiveTarget ==
    [][/\ \A p \in Handles : begin(p) => pdev' = p
       /\ (\A p \in Handles : ~begin(p)) => pdev' = pdev
       /\ \A s \in Surfaces \ {pdev'} : elements'[s] = elements[s]
       /\ \A s \in Surfaces \ {pdev} : elements'[s] = elements[s]
      ]_vars

\* After a notification recorded on A the engine was bound to B and has
\* recorded a notification there.
C16_Witness ==
    /\ pdev = "B" /\ ret.op = "begin" /\ ret.arg = "B"
    /\ Len(hist["A"]) = 1 /\ Len(elements["A"]) >= 1
    /\ Len(hist["B"]) = 1 /\ Len(elements["B"]) >= 1

\* C17: begin() keeps the lists.  A begin(), whatever its argument, leaves
\* the list of every device as it was, the list of the device being bound
\* included, so elements of an earlier session stay; and a notification
\* recorded after it adds its elements after the ones the device held.
C17_BeginKeepsLogs ==
    [][/\ \A p \in Handles : begin(p) => elements' = elements
       /\ (IsRecordPaintDevice(pdev) /\ hist'[pdev] # hist[pdev]) =>
             /\ IsPrefix(elements[pdev], elements'[pdev])
             /\ Len(elements'[pdev]) >= Len(elements[pdev])
      ]_vars

\* begin(A) is the latest call that returned, on an engine whose device A
\* holds the elements of two notifications and whose device B holds none.
C17_Witness ==
    /\ ret.op = "begin" /\ ret.arg = "A" /\ pdev = "A"
    /\ Len(hist["A"]) = 2
    /\ Len(elements["A"]) >= 2
    /\ elements["B"] = <<>>

====
